---- MODULE Spec2Model ----
(***************************************************************************)
(* vscode-cmake-configure (src/main.go): read .vscode/settings.json, parse *)
(* it into VSCodeSettings, format cmake.configureSettings as -DKEY=VALUE    *)
(* tokens, append cmake.configureArgs and the process arguments, print the *)
(* command line and run cmake.                                             *)
(*                                                                         *)
(* Go strings are modelled as sequences of byte values (0..255), so that   *)
(* byte-wise comparison, strings.ToLower, fmt.Sprintf concatenation and    *)
(* shellescape.Quote are computed, not assumed.                            *)
(***************************************************************************)
EXTENDS Integers, Sequences, FiniteSets, TLC

VARIABLES
    pc,         \* position in main()
    env,        \* process environment: a function from the names of the set variables to their values
    osArgs,     \* os.Args[1:]
    fsys,       \* file system: path -> [readable, contents]
    tool,       \* what the cmake executable does when it is run
    inFile,     \* main: inFile
    dryRun,     \* main: dryRun
    contents,   \* ReadVSCodeSettings: contents
    settings,   \* main: settings (VSCodeSettings)
    err,        \* main: err ("" is nil)
    iterOrder,  \* the order in which range visited the map in FormatCMakeConfigureSettings
    formatted,  \* result of FormatCMakeConfigureSettings
    allArgs,    \* result of CollectCLIArgs
    stdout,     \* what was written to standard output, in order
    reads,      \* number of os.ReadFile calls
    spawned,    \* number of cmd.Run calls
    retcode,    \* main: retcode
    exitCode    \* exit status of the process (-1 while running)

vars == <<pc, env, osArgs, fsys, tool, inFile, dryRun, contents, settings, err,
          iterOrder, formatted, allArgs, stdout, reads, spawned, retcode, exitCode>>

---------------------------------------------------------------------------
(* Bounds of the model *)

MaxKeys == 2        \* entries of cmake.configureSettings in SpecFormat
MaxValueLen == 1    \* length of a value in SpecFormat
MaxQuoteLen == 3    \* length of a value in SpecQuote
MaxEnvLen == 5      \* length of VCC_DRY_RUN in SpecEnv
MaxElems == 1       \* elements of a JSON array, members of an inner JSON object in SpecParse
MaxExitCode == 2    \* exit codes 0..MaxExitCode of the external tool, besides 255

---------------------------------------------------------------------------
(* Go strings as byte sequences *)

\* all byte strings over alphabet A of length lo..hi
StringsOver(A, lo, hi) == UNION {[1..n -> A] : n \in lo..hi}

\* Go's < on strings: byte-wise lexicographic, a proper prefix is smaller
StrLess(a, b) ==
    \E i \in 1..Len(b) :
        /\ \A j \in 1..(i-1) : j <= Len(a) /\ a[j] = b[j]
        /\ IF i <= Len(a) THEN a[i] < b[i] ELSE TRUE

\* utf8.RuneError, U+FFFD: what a byte that starts no valid encoding decodes to
RuneError == 65533

\* byte i of s exists and lies in lo..hi
ByteIn(s, i, lo, hi) == i <= Len(s) /\ s[i] >= lo /\ s[i] <= hi

\* utf8.DecodeRuneInString(s) for s not empty: the rune at the head of s and its
\* width; overlong forms, surrogates and values past U+10FFFF are invalid, and an
\* invalid head is RuneError of width 1
DecodeRune(s) ==
    LET b == s[1]
    IN  IF b < 128 THEN [r |-> b, w |-> 1]
        ELSE IF b >= 194 /\ b <= 223 /\ ByteIn(s, 2, 128, 191)
        THEN [r |-> (b - 192) * 64 + (s[2] - 128), w |-> 2]
        ELSE IF /\ b >= 224 /\ b <= 239
                /\ ByteIn(s, 2, IF b = 224 THEN 160 ELSE 128, IF b = 237 THEN 159 ELSE 191)
                /\ ByteIn(s, 3, 128, 191)
        THEN [r |-> (b - 224) * 4096 + (s[2] - 128) * 64 + (s[3] - 128), w |-> 3]
        ELSE IF /\ b >= 240 /\ b <= 244
                /\ ByteIn(s, 2, IF b = 240 THEN 144 ELSE 128, IF b = 244 THEN 143 ELSE 191)
                /\ ByteIn(s, 3, 128, 191)
                /\ ByteIn(s, 4, 128, 191)
        THEN [r |-> (b - 240) * 262144 + (s[2] - 128) * 4096 + (s[3] - 128) * 64 + (s[4] - 128),
              w |-> 4]
        ELSE [r |-> RuneError, w |-> 1]

\* utf8.AppendRune: the UTF-8 encoding of a rune
EncodeRune(r) ==
    IF r < 128 THEN <<r>>
    ELSE IF r < 2048 THEN <<192 + (r \div 64), 128 + (r % 64)>>
    ELSE IF r < 65536 THEN <<224 + (r \div 4096), 128 + ((r \div 64) % 64), 128 + (r % 64)>>
    ELSE <<240 + (r \div 262144), 128 + ((r \div 4096) % 64), 128 + ((r \div 64) % 64),
           128 + (r % 64)>>

\* unicode.CaseRanges (Unicode 13.0), the ranges of alternating pairs <<lo, hi>>: the
\* runes lo, lo+2, .., hi are upper case and each is followed by its lower case
UpperLowerRanges ==
    { <<256, 302>>, <<306, 310>>, <<313, 327>>, <<330, 374>>, <<377, 381>>,
      <<386, 388>>, <<416, 420>>, <<435, 437>>, <<459, 475>>, <<478, 494>>,
      <<498, 500>>, <<504, 542>>, <<546, 562>>, <<582, 590>>, <<880, 882>>,
      <<984, 1006>>, <<1120, 1152>>, <<1162, 1214>>, <<1217, 1229>>, <<1232, 1326>>,
      <<7680, 7828>>, <<7840, 7934>>, <<11367, 11371>>, <<11392, 11490>>, <<11499, 11501>>,
      <<42560, 42604>>, <<42624, 42650>>, <<42786, 42798>>, <<42802, 42862>>, <<42873, 42875>>,
      <<42878, 42886>>, <<42896, 42898>>, <<42902, 42920>>, <<42932, 42942>>, <<42951, 42953>> }

\* unicode.CaseRanges (Unicode 13.0), the other ranges with a lower case <<lo, hi, d>>:
\* the lower case of each rune in lo..hi is the rune plus d
LowerDeltaRanges ==
    { <<65, 90, 32>>, <<192, 214, 32>>, <<216, 222, 32>>, <<304, 304, -199>>, <<376, 376, -121>>,
      <<385, 385, 210>>, <<390, 390, 206>>, <<391, 391, 1>>, <<393, 394, 205>>, <<395, 395, 1>>,
      <<398, 398, 79>>, <<399, 399, 202>>, <<400, 400, 203>>, <<401, 401, 1>>, <<403, 403, 205>>,
      <<404, 404, 207>>, <<406, 406, 211>>, <<407, 407, 209>>, <<408, 408, 1>>, <<412, 412, 211>>,
      <<413, 413, 213>>, <<415, 415, 214>>, <<422, 422, 218>>, <<423, 423, 1>>, <<425, 425, 218>>,
      <<428, 428, 1>>, <<430, 430, 218>>, <<431, 431, 1>>, <<433, 434, 217>>, <<439, 439, 219>>,
      <<440, 440, 1>>, <<444, 444, 1>>, <<452, 452, 2>>, <<453, 453, 1>>, <<455, 455, 2>>,
      <<456, 456, 1>>, <<458, 458, 2>>, <<497, 497, 2>>, <<502, 502, -97>>, <<503, 503, -56>>,
      <<544, 544, -130>>, <<570, 570, 10795>>, <<571, 571, 1>>, <<573, 573, -163>>, <<574, 574, 10792>>,
      <<577, 577, 1>>, <<579, 579, -195>>, <<580, 580, 69>>, <<581, 581, 71>>, <<886, 886, 1>>,
      <<895, 895, 116>>, <<902, 902, 38>>, <<904, 906, 37>>, <<908, 908, 64>>, <<910, 911, 63>>,
      <<913, 929, 32>>, <<931, 939, 32>>, <<975, 975, 8>>, <<1012, 1012, -60>>, <<1015, 1015, 1>>,
      <<1017, 1017, -7>>, <<1018, 1018, 1>>, <<1021, 1023, -130>>, <<1024, 1039, 80>>, <<1040, 1071, 32>>,
      <<1216, 1216, 15>>, <<1329, 1366, 48>>, <<4256, 4293, 7264>>, <<4295, 4295, 7264>>, <<4301, 4301, 7264>>,
      <<5024, 5103, 38864>>, <<5104, 5109, 8>>, <<7312, 7354, -3008>>, <<7357, 7359, -3008>>, <<7838, 7838, -7615>>,
      <<7944, 7951, -8>>, <<7960, 7965, -8>>, <<7976, 7983, -8>>, <<7992, 7999, -8>>, <<8008, 8013, -8>>,
      <<8025, 8025, -8>>, <<8027, 8027, -8>>, <<8029, 8029, -8>>, <<8031, 8031, -8>>, <<8040, 8047, -8>>,
      <<8072, 8079, -8>>, <<8088, 8095, -8>>, <<8104, 8111, -8>>, <<8120, 8121, -8>>, <<8122, 8123, -74>>,
      <<8124, 8124, -9>>, <<8136, 8139, -86>>, <<8140, 8140, -9>>, <<8152, 8153, -8>>, <<8154, 8155, -100>>,
      <<8168, 8169, -8>>, <<8170, 8171, -112>>, <<8172, 8172, -7>>, <<8184, 8185, -128>>, <<8186, 8187, -126>>,
      <<8188, 8188, -9>>, <<8486, 8486, -7517>>, <<8490, 8490, -8383>>, <<8491, 8491, -8262>>, <<8498, 8498, 28>>,
      <<8544, 8559, 16>>, <<8579, 8579, 1>>, <<9398, 9423, 26>>, <<11264, 11310, 48>>, <<11360, 11360, 1>>,
      <<11362, 11362, -10743>>, <<11363, 11363, -3814>>, <<11364, 11364, -10727>>, <<11373, 11373, -10780>>, <<11374, 11374, -10749>>,
      <<11375, 11375, -10783>>, <<11376, 11376, -10782>>, <<11378, 11378, 1>>, <<11381, 11381, 1>>, <<11390, 11391, -10815>>,
      <<11506, 11506, 1>>, <<42877, 42877, -35332>>, <<42891, 42891, 1>>, <<42893, 42893, -42280>>, <<42922, 42922, -42308>>,
      <<42923, 42923, -42319>>, <<42924, 42924, -42315>>, <<42925, 42925, -42305>>, <<42926, 42926, -42308>>, <<42928, 42928, -42258>>,
      <<42929, 42929, -42282>>, <<42930, 42930, -42261>>, <<42931, 42931, 928>>, <<42946, 42946, 1>>, <<42948, 42948, -48>>,
      <<42949, 42949, -42307>>, <<42950, 42950, -35384>>, <<42997, 42997, 1>>, <<65313, 65338, 32>>, <<66560, 66599, 40>>,
      <<66736, 66771, 40>>, <<68736, 68786, 64>>, <<71840, 71871, 32>>, <<93760, 93791, 32>>, <<125184, 125217, 34>> }

\* unicode.ToLower: the rune's lower case by the case ranges, the rune itself when
\* no range gives it one. The tables are those of Unicode 13.0 (Go 1.16 to 1.20);
\* Go 1.21 and later add 40 pairs (U+2C2F, U+A7C0, U+A7D0, U+A7D6, U+A7D8,
\* U+10570..U+10595), none with an ASCII lower case
ToLowerRune(r) ==
    IF r < 128 THEN (IF r >= 65 /\ r <= 90 THEN r + 32 ELSE r)
    ELSE IF \E e \in UpperLowerRanges : r >= e[1] /\ r <= e[2] /\ (r - e[1]) % 2 = 0
    THEN r + 1
    ELSE IF \E e \in LowerDeltaRanges : r >= e[1] /\ r <= e[2]
    THEN r + (CHOOSE e \in LowerDeltaRanges : r >= e[1] /\ r <= e[2])[3]
    ELSE r

\* strings.Map(unicode.ToLower, s): rune by rune, an invalid byte becomes U+FFFD
RECURSIVE MapToLower(_)
MapToLower(s) ==
    IF s = <<>> THEN <<>>
    ELSE LET d == DecodeRune(s)
         IN  EncodeRune(ToLowerRune(d.r)) \o MapToLower(SubSeq(s, d.w + 1, Len(s)))

\* strings.ToLower: byte by byte when s is all ASCII, else strings.Map
ToLowerByte(c) == IF c >= 65 /\ c <= 90 THEN c + 32 ELSE c
ToLower(s) ==
    IF \A i \in 1..Len(s) : s[i] < 128
    THEN [i \in 1..Len(s) |-> ToLowerByte(s[i])]
    ELSE MapToLower(s)

\* strings.Join(elems, " ")
RECURSIVE Join(_)
Join(elems) ==
    IF Len(elems) = 0 THEN <<>>
    ELSE IF Len(elems) = 1 THEN elems[1]
    ELSE elems[1] \o <<32>> \o Join(Tail(elems))

\* all orders (sequences without repetition) in which the elements of S can be visited
Orders(S) == {o \in [1..Cardinality(S) -> S] : \A i, j \in 1..Cardinality(S) : o[i] = o[j] => i = j}

---------------------------------------------------------------------------
(* shellescape.Quote, as called from FormatCMakeConfigureSettings *)

\* the characters outside the pattern [^\w@%+=:,./-]
IsSafeByte(c) ==
    \/ c >= 48 /\ c <= 57       \* 0-9
    \/ c >= 65 /\ c <= 90       \* A-Z
    \/ c >= 97 /\ c <= 122      \* a-z
    \/ c \in {95, 64, 37, 43, 61, 58, 44, 46, 47, 45}   \* _ @ % + = : , . / -

\* strings.ReplaceAll(s, "'", "'\"'\"'")
RECURSIVE ReplaceQuotes(_)
ReplaceQuotes(s) ==
    IF s = <<>> THEN <<>>
    ELSE (IF s[1] = 39 THEN <<39, 34, 39, 34, 39>> ELSE <<s[1]>>) \o ReplaceQuotes(Tail(s))

\* mutant of Quote: wraps in single quotes without replacing the quotes inside
QuoteNoReplace(s) ==
    IF Len(s) = 0 THEN <<39, 39>>
    ELSE IF \E i \in 1..Len(s) : ~IsSafeByte(s[i]) THEN <<39>> \o s \o <<39>>
    ELSE s

\* mutant of Quote: quotes every value
QuoteAlways(s) == <<39>> \o ReplaceQuotes(s) \o <<39>>

Quote(s) ==
    IF Len(s) = 0 THEN <<39, 39>>
    ELSE IF \E i \in 1..Len(s) : ~IsSafeByte(s[i]) THEN <<39>> \o ReplaceQuotes(s) \o <<39>>
    ELSE s

---------------------------------------------------------------------------
(* FormatCMakeConfigureSettings and CollectCLIArgs *)

\* mutant of FormatToken: the value is not escaped
FormatTokenRaw(key, value) == <<45, 68>> \o key \o <<61>> \o value

\* fmt.Sprintf("-D%s=%s", key, shellescape.Quote(value))
FormatToken(key, value) == <<45, 68>> \o key \o <<61>> \o Quote(value)

\* sort.Strings: the ascending arrangement of the elements (insertion sort)
InsertSorted(s, x) ==
    IF \E i \in 1..Len(s) : StrLess(x, s[i])
    THEN LET i == CHOOSE i \in 1..Len(s) :
                      StrLess(x, s[i]) /\ \A j \in 1..(i-1) : ~StrLess(x, s[j])
         IN  SubSeq(s, 1, i-1) \o <<x>> \o SubSeq(s, i, Len(s))
    ELSE Append(s, x)

\* mutant of SortStrings: the slice is left in iteration order
SortStringsSkipped(s) == s

RECURSIVE SortStrings(_)
SortStrings(s) ==
    IF s = <<>> THEN <<>>
    ELSE InsertSorted(SortStrings(SubSeq(s, 1, Len(s)-1)), s[Len(s)])

\* the loop over the map, visiting the keys in the given order, then the sort
FormatCMakeConfigureSettings(s, order) ==
    SortStrings([i \in 1..Len(order) |->
                    FormatToken(order[i], s.CMakeConfigureSettings[order[i]])])

\* mutant of CollectCLIArgs: the process arguments come before cmake.configureArgs
CollectCLIArgsSwapped(fmtd, s, argv) == fmtd \o argv \o s.CMakeConfigureArguments

\* mutant of CollectCLIArgs: a leading "-h" or "--help" is consumed, not forwarded
CollectCLIArgsDropHelp(fmtd, s, argv) ==
    (fmtd \o s.CMakeConfigureArguments) \o
        (IF Len(argv) >= 1 /\ argv[1] \in {<<45, 104>>, <<45, 45, 104, 101, 108, 112>>}
         THEN Tail(argv) ELSE argv)

\* the three appends of CollectCLIArgs; fmtd is settings.FormatCMakeConfigureSettings()
CollectCLIArgs(fmtd, s, argv) == (fmtd \o s.CMakeConfigureArguments) \o argv

\* VSCodeSettings{}: nil map, nil slice
EmptySettings == [CMakeConfigureSettings |-> <<>>, CMakeConfigureArguments |-> <<>>]

---------------------------------------------------------------------------
(* JSON documents, as json.Unmarshal(jsonc.ToJSON(inputString), &settings) sees them *)

JNull == [t |-> "null"]
JBool == [t |-> "bool", b |-> TRUE]
JNumber == [t |-> "number", n |-> 17]
JString(s) == [t |-> "string", s |-> s]
JArray(a) == [t |-> "array", a |-> a]            \* a: sequence of JSON values
JObject(o) == [t |-> "object", o |-> o]          \* o: sequence of <<key, JSON value>>, in document order

\* bytes that are not valid JSON once the comments are stripped
InvalidDoc == [valid |-> FALSE]
ValidDoc(v) == [valid |-> TRUE, value |-> v]

\* the json tags of VSCodeSettings
TagConfigureSettings ==
    <<99,109,97,107,101,46,99,111,110,102,105,103,117,114,101,83,101,116,116,105,110,103,115>>
TagConfigureArgs ==
    <<99,109,97,107,101,46,99,111,110,102,105,103,117,114,101,65,114,103,115>>

\* mutant of FieldOf: only the exact tag selects a field
FieldOfExact(key) ==
    IF key = TagConfigureSettings THEN "CMakeConfigureSettings"
    ELSE IF key = TagConfigureArgs THEN "CMakeConfigureArguments"
    ELSE "none"

\* the rune encoding/json folds a rune of a member key to, for the runes that
\* fold to ASCII: a..z to A..Z, U+017F (long s) to S, U+212A (Kelvin sign) to K
FoldRune(r) ==
    IF r >= 97 /\ r <= 122 THEN r - 32
    ELSE IF r = 383 THEN 83
    ELSE IF r = 8490 THEN 75
    ELSE r

\* encoding/json's folded form of a name: byte by byte over ASCII, else rune by rune
RECURSIVE FoldRunes(_)
FoldRunes(s) ==
    IF s = <<>> THEN <<>>
    ELSE LET d == DecodeRune(s)
         IN  EncodeRune(FoldRune(d.r)) \o FoldRunes(SubSeq(s, d.w + 1, Len(s)))

FoldName(s) ==
    IF \A i \in 1..Len(s) : s[i] < 128
    THEN [i \in 1..Len(s) |-> FoldRune(s[i])]
    ELSE FoldRunes(s)

\* the struct field a member key selects: the exact tag, else the tag with the
\* same folded form
FieldOf(key) ==
    IF key = TagConfigureSettings THEN "CMakeConfigureSettings"
    ELSE IF key = TagConfigureArgs THEN "CMakeConfigureArguments"
    ELSE IF FoldName(key) = FoldName(TagConfigureSettings) THEN "CMakeConfigureSettings"
    ELSE IF FoldName(key) = FoldName(TagConfigureArgs) THEN "CMakeConfigureArguments"
    ELSE "none"

\* mutant of DecodeString: a non-string value is coerced to the empty string without an error
DecodeStringLenient(cur, v) ==
    IF v.t = "string" THEN [val |-> v.s, bad |-> FALSE] ELSE [val |-> <<>>, bad |-> FALSE]

\* mutant of DecodeString: null is a type error like any other non-string
DecodeStringStrict(cur, v) ==
    IF v.t = "string" THEN [val |-> v.s, bad |-> FALSE] ELSE [val |-> cur, bad |-> TRUE]

\* a JSON value decoded into a Go string that holds cur: null leaves it as it is
\* and is no error, any other non-string leaves it too and is an UnmarshalTypeError
DecodeString(cur, v) ==
    IF v.t = "string" THEN [val |-> v.s, bad |-> FALSE]
    ELSE IF v.t = "null" THEN [val |-> cur, bad |-> FALSE]
    ELSE [val |-> cur, bad |-> TRUE]

\* the members of a JSON object stored into a map[string]string, in order; each
\* value is decoded into a fresh string (a later duplicate key overwrites)
RECURSIVE DecodeMapMembers(_, _)
DecodeMapMembers(members, acc) ==
    IF members = <<>> THEN acc
    ELSE LET key == members[1][1]
             d   == DecodeString(<<>>, members[1][2])
             m   == [k \in (DOMAIN acc.val) \cup {key} |-> IF k = key THEN d.val ELSE acc.val[k]]
         IN  DecodeMapMembers(Tail(members), [val |-> m, bad |-> acc.bad \/ d.bad])

\* a JSON value decoded into the map field whose current value is cur
DecodeMap(cur, v) ==
    IF v.t = "null" THEN [val |-> <<>>, bad |-> FALSE]
    ELSE IF v.t = "object" THEN DecodeMapMembers(v.o, [val |-> cur, bad |-> FALSE])
    ELSE [val |-> cur, bad |-> TRUE]

\* a JSON value decoded into the []string field whose current value is cur and
\* whose backing array holds back (cur is a prefix of back): null gives nil, an
\* empty array a fresh empty slice; the elements of an array are decoded in place,
\* the slice is extended over the backing array as needed and cut to the number of
\* elements at the end, so a null element keeps what its slot held
DecodeSlice(cur, back, v) ==
    IF v.t = "null" THEN [val |-> <<>>, back |-> <<>>, bad |-> FALSE]
    ELSE IF v.t = "array"
    THEN IF v.a = <<>> THEN [val |-> <<>>, back |-> <<>>, bad |-> FALSE]
         ELSE LET slot(i) == IF i <= Len(back) THEN back[i] ELSE <<>>
                  elems   == [i \in 1..Len(v.a) |-> DecodeString(slot(i), v.a[i]).val]
              IN  [val  |-> elems,
                   back |-> elems \o SubSeq(back, Len(v.a) + 1, Len(back)),
                   bad  |-> \E i \in 1..Len(v.a) : DecodeString(slot(i), v.a[i]).bad]
    ELSE [val |-> cur, back |-> back, bad |-> TRUE]

\* the members of the top-level object decoded into the struct; the first error is
\* kept and decoding goes on; back is the backing array of CMakeConfigureArguments
RECURSIVE DecodeStruct(_, _)
DecodeStruct(members, acc) ==
    IF members = <<>> THEN acc
    ELSE LET f == FieldOf(members[1][1])
             v == members[1][2]
             next ==
                 IF f = "CMakeConfigureSettings"
                 THEN LET d == DecodeMap(acc.settings.CMakeConfigureSettings, v)
                      IN  [settings |-> [acc.settings EXCEPT !.CMakeConfigureSettings = d.val],
                           back |-> acc.back,
                           err |-> IF acc.err = "" /\ d.bad THEN "UnmarshalTypeError" ELSE acc.err]
                 ELSE IF f = "CMakeConfigureArguments"
                 THEN LET d == DecodeSlice(acc.settings.CMakeConfigureArguments, acc.back, v)
                      IN  [settings |-> [acc.settings EXCEPT !.CMakeConfigureArguments = d.val],
                           back |-> d.back,
                           err |-> IF acc.err = "" /\ d.bad THEN "UnmarshalTypeError" ELSE acc.err]
                 ELSE acc
         IN  DecodeStruct(Tail(members), next)

\* json.Unmarshal(jsonc.ToJSON(inputString), &settings) with settings the zero value
Unmarshal(doc) ==
    IF ~doc.valid THEN [settings |-> EmptySettings, err |-> "SyntaxError"]
    ELSE IF doc.value.t = "null" THEN [settings |-> EmptySettings, err |-> ""]
    ELSE IF doc.value.t = "object"
    THEN LET r == DecodeStruct(doc.value.o, [settings |-> EmptySettings, back |-> <<>>, err |-> ""])
         IN  [settings |-> r.settings, err |-> r.err]
    ELSE [settings |-> EmptySettings, err |-> "UnmarshalTypeError"]

\* mutant of ParseVSCodeSettings: the partly decoded settings are returned with the error
ParseVSCodeSettingsPartial(doc) == Unmarshal(doc)

ParseVSCodeSettings(doc) ==
    LET r == Unmarshal(doc)
    IN  IF r.err # "" THEN [settings |-> EmptySettings, err |-> r.err]
        ELSE [settings |-> r.settings, err |-> ""]

---------------------------------------------------------------------------
(* Environment helpers *)

\* os.LookupEnv
LookupEnv(e, key) ==
    IF key \in DOMAIN e THEN [value |-> e[key], exists |-> TRUE]
    ELSE [value |-> <<>>, exists |-> FALSE]

GetEnvOrDefault(e, key, fallback) ==
    LET l == LookupEnv(e, key)
    IN  IF l.exists /\ l.value # <<>> THEN l.value ELSE fallback

\* mutant of GetEnvAsBool: the value is compared without strings.ToLower
GetEnvAsBoolCaseSensitive(e, key) ==
    LET l == LookupEnv(e, key)
    IN  l.exists /\ ~(l.value \in {<<48>>, <<102, 97, 108, 115, 101>>})

\* mutant of GetEnvAsBool: an empty value counts as unset (as GetEnvOrDefault does)
GetEnvAsBoolEmptyFalse(e, key) ==
    LET l == LookupEnv(e, key)
    IN  l.exists /\ l.value # <<>> /\ ~(ToLower(l.value) \in {<<48>>, <<102, 97, 108, 115, 101>>})

\* exists && !slices.Contains([]string{"0", "false"}, strings.ToLower(value))
GetEnvAsBool(e, key) ==
    LET l == LookupEnv(e, key)
    IN  l.exists /\ ~(ToLower(l.value) \in {<<48>>, <<102, 97, 108, 115, 101>>})

\* ".vscode/settings.json"
DefaultSettingsPath ==
    <<46,118,115,99,111,100,101,47,115,101,116,116,105,110,103,115,46,106,115,111,110>>

---------------------------------------------------------------------------
(* main(), one action per step *)

HelpFlags == {<<45, 104>>, <<45, 45, 104, 101, 108, 112>>}     \* "-h", "--help"
CMakeName == <<99, 109, 97, 107, 101>>                          \* "cmake"

\* main: inFile := GetEnvOrDefault(...); dryRun := GetEnvAsBool(...)
GetEnv ==
    /\ pc = "start"
    /\ inFile' = GetEnvOrDefault(env, "VCC_VSCODE_SETTINGS", DefaultSettingsPath)
    /\ dryRun' = GetEnvAsBool(env, "VCC_DRY_RUN")
    /\ pc' = "help"
    /\ UNCHANGED <<env, osArgs, fsys, tool, contents, settings, err, iterOrder,
                   formatted, allArgs, stdout, reads, spawned, retcode, exitCode>>

\* mutant of ShowHelp: after the help text the program exits with status 0
ShowHelpAndExit ==
    /\ pc = "help"
    /\ IF Len(osArgs) >= 1 /\ osArgs[1] \in HelpFlags
       THEN /\ stdout' = Append(stdout, [kind |-> "help"])
            /\ exitCode' = 0
            /\ pc' = "done"
       ELSE /\ pc' = "read"
            /\ UNCHANGED <<stdout, exitCode>>
    /\ UNCHANGED <<env, osArgs, fsys, tool, inFile, dryRun, contents, settings, err,
                   iterOrder, formatted, allArgs, reads, spawned, retcode>>

\* main: if len(os.Args) >= 2 && (os.Args[1] == "-h" || os.Args[1] == "--help") { showHelp() }
ShowHelp ==
    /\ pc = "help"
    /\ stdout' = IF Len(osArgs) >= 1 /\ osArgs[1] \in HelpFlags
                 THEN Append(stdout, [kind |-> "help"])
                 ELSE stdout
    /\ pc' = "read"
    /\ UNCHANGED <<env, osArgs, fsys, tool, inFile, dryRun, contents, settings, err,
                   iterOrder, formatted, allArgs, reads, spawned, retcode, exitCode>>

\* ReadVSCodeSettings: os.ReadFile(inputFile)
ReadFile ==
    /\ pc = "read"
    /\ reads' = reads + 1
    /\ IF inFile \in DOMAIN fsys
       THEN /\ contents' = fsys[inFile]
            /\ pc' = "parse"
            /\ UNCHANGED <<settings, err>>
       ELSE /\ settings' = EmptySettings
            /\ err' = "ReadError"
            /\ pc' = "check"
            /\ UNCHANGED contents
    /\ UNCHANGED <<env, osArgs, fsys, tool, inFile, dryRun, iterOrder, formatted,
                   allArgs, stdout, spawned, retcode, exitCode>>

\* ReadVSCodeSettings: return ParseVSCodeSettings(contents)
Parse ==
    /\ pc = "parse"
    /\ LET r == ParseVSCodeSettings(contents)
       IN  /\ settings' = r.settings
           /\ err' = r.err
    /\ pc' = "check"
    /\ UNCHANGED <<env, osArgs, fsys, tool, inFile, dryRun, contents, iterOrder,
                   formatted, allArgs, stdout, reads, spawned, retcode, exitCode>>

\* mutant of CheckErr: the error is printed and the run goes on
CheckErrGoesOn ==
    /\ pc = "check"
    /\ stdout' = IF err # "" THEN Append(stdout, [kind |-> "error", err |-> err]) ELSE stdout
    /\ pc' = "format"
    /\ UNCHANGED <<env, osArgs, fsys, tool, inFile, dryRun, contents, settings, err,
                   iterOrder, formatted, allArgs, reads, spawned, retcode, exitCode>>

\* main: if err != nil { fmt.Println(err); os.Exit(1) }
CheckErr ==
    /\ pc = "check"
    /\ IF err # ""
       THEN /\ stdout' = Append(stdout, [kind |-> "error", err |-> err])
            /\ exitCode' = 1
            /\ pc' = "done"
       ELSE /\ pc' = "format"
            /\ UNCHANGED <<stdout, exitCode>>
    /\ UNCHANGED <<env, osArgs, fsys, tool, inFile, dryRun, contents, settings, err,
                   iterOrder, formatted, allArgs, reads, spawned, retcode>>

\* RunCMakeConfigure -> CollectCLIArgs -> settings.FormatCMakeConfigureSettings();
\* range visits the map in an order the runtime picks
Format ==
    /\ pc = "format"
    /\ \E order \in Orders(DOMAIN settings.CMakeConfigureSettings) :
           /\ iterOrder' = order
           /\ formatted' = FormatCMakeConfigureSettings(settings, order)
    /\ pc' = "collect"
    /\ UNCHANGED <<env, osArgs, fsys, tool, inFile, dryRun, contents, settings, err,
                   allArgs, stdout, reads, spawned, retcode, exitCode>>

\* RunCMakeConfigure: settings.CollectCLIArgs(os.Args[1:]...)
Collect ==
    /\ pc = "collect"
    /\ allArgs' = CollectCLIArgs(formatted, settings, osArgs)
    /\ pc' = "print"
    /\ UNCHANGED <<env, osArgs, fsys, tool, inFile, dryRun, contents, settings, err,
                   iterOrder, formatted, stdout, reads, spawned, retcode, exitCode>>

\* mutant of PrintCommand: the command line is printed in dry-run mode only
PrintCommandDryRunOnly ==
    /\ pc = "print"
    /\ stdout' = IF dryRun
                 THEN Append(stdout, [kind |-> "command", line |-> Join(<<CMakeName>> \o allArgs)])
                 ELSE stdout
    /\ pc' = "run"
    /\ UNCHANGED <<env, osArgs, fsys, tool, inFile, dryRun, contents, settings, err,
                   iterOrder, formatted, allArgs, reads, spawned, retcode, exitCode>>

\* RunCMakeConfigure: fmt.Printf("Running command:\n\t%v\n\n", strings.Join(cmd.Args, " "))
PrintCommand ==
    /\ pc = "print"
    /\ stdout' = Append(stdout, [kind |-> "command", line |-> Join(<<CMakeName>> \o allArgs)])
    /\ pc' = "run"
    /\ UNCHANGED <<env, osArgs, fsys, tool, inFile, dryRun, contents, settings, err,
                   iterOrder, formatted, allArgs, reads, spawned, retcode, exitCode>>

\* mutant of ProcessStateExitCode: a tool that did not run to an exit counts as success
ProcessStateExitCodeZero(t) == IF t.kind = "exited" THEN t.code ELSE 0

\* cmd.ProcessState.ExitCode() after cmd.Run(): -1 when the process did not start
\* (nil ProcessState) or was ended by a signal, else its exit code
ProcessStateExitCode(t) == IF t.kind = "exited" THEN t.code ELSE -1

\* RunCMakeConfigure: if dryRun { return 0 }
DryRunReturn ==
    /\ pc = "run"
    /\ dryRun
    /\ retcode' = 0
    /\ pc' = "exit"
    /\ UNCHANGED <<env, osArgs, fsys, tool, inFile, dryRun, contents, settings, err,
                   iterOrder, formatted, allArgs, stdout, reads, spawned, exitCode>>

\* mutant of RunTool: the tool is run without the dry-run check before it
RunToolUnguarded ==
    /\ pc = "run"
    /\ spawned' = spawned + 1
    /\ stdout' = IF tool.kind = "exited" /\ tool.code = 0
                 THEN stdout
                 ELSE Append(stdout, [kind |-> "error", err |-> tool.kind])
    /\ retcode' = IF tool.kind = "exited" THEN tool.code ELSE -1
    /\ pc' = "exit"
    /\ UNCHANGED <<env, osArgs, fsys, tool, inFile, dryRun, contents, settings, err,
                   iterOrder, formatted, allArgs, reads, exitCode>>

\* RunCMakeConfigure: if res := cmd.Run(); res != nil { print }; return cmd.ProcessState.ExitCode()
RunTool ==
    /\ pc = "run"
    /\ ~dryRun
    /\ spawned' = spawned + 1
    /\ stdout' = IF tool.kind = "exited" /\ tool.code = 0
                 THEN stdout
                 ELSE Append(stdout, [kind |-> "error", err |-> tool.kind])
    /\ retcode' = ProcessStateExitCode(tool)
    /\ pc' = "exit"
    /\ UNCHANGED <<env, osArgs, fsys, tool, inFile, dryRun, contents, settings, err,
                   iterOrder, formatted, allArgs, reads, exitCode>>

\* main: os.Exit(retcode); the exit status of a process is one byte
Exit ==
    /\ pc = "exit"
    /\ exitCode' = retcode % 256
    /\ pc' = "done"
    /\ UNCHANGED <<env, osArgs, fsys, tool, inFile, dryRun, contents, settings, err,
                   iterOrder, formatted, allArgs, stdout, reads, spawned, retcode>>

---------------------------------------------------------------------------
(* Inputs *)

\* a variable that is unset is <<>>, one that is set to v is <<v>>
EnvOf(dry, path) ==
    [k \in (IF dry = <<>> THEN {} ELSE {"VCC_DRY_RUN"}) \cup
           (IF path = <<>> THEN {} ELSE {"VCC_VSCODE_SETTINGS"}) |->
        IF k = "VCC_DRY_RUN" THEN dry[1] ELSE path[1]]

AltSettingsPath == <<115>>          \* "s"

\* the settings document that holds exactly the given settings
DocOf(s) ==
    LET m == s.CMakeConfigureSettings
        o == CHOOSE o \in Orders(DOMAIN m) : TRUE
    IN  ValidDoc(JObject(<<
            <<TagConfigureArgs,
              JArray([i \in 1..Len(s.CMakeConfigureArguments) |-> JString(s.CMakeConfigureArguments[i])])>>,
            <<TagConfigureSettings,
              JObject([i \in 1..Len(o) |-> <<o[i], JString(m[o[i]])>>])>> >>))

\* variable names: "A", "A1", "A=", "AB"
Names == {<<65>>, <<65, 49>>, <<65, 61>>, <<65, 66>>}

\* all mappings with at most n entries, names from K, values from V
Mappings(K, V, n) == UNION {[D -> V] : D \in {D \in SUBSET K : Cardinality(D) <= n}}

ArgLists == {<<>>, <<<<45, 87>>, <<45, 71>>>>}                       \* [], ["-W", "-G"]
ArgvLists == {<<>>, <<<<45, 104>>>>, <<<<45, 66>>, <<45, 65>>>>}     \* [], ["-h"], ["-B", "-A"]

\* the settings of SpecFormat: at most n entries, values over a and space
FormatSettings(n) ==
    {[CMakeConfigureSettings |-> m, CMakeConfigureArguments |-> a] :
        m \in Mappings(Names, StringsOver({97, 32}, 0, MaxValueLen), n),
        a \in ArgLists}

\* values over a, space, ', ", \, $, =, ;, newline, `, *
QuoteAlphabet == {97, 32, 39, 34, 92, 36, 61, 59, 10, 96, 42}

\* the settings of SpecQuote: at most one entry, its value of length at most n
QuoteSettings(n) ==
    {[CMakeConfigureSettings |-> m, CMakeConfigureArguments |-> <<>>] :
        m \in Mappings({<<65>>}, StringsOver(QuoteAlphabet, 0, n), 1)}

\* values of VCC_DRY_RUN over 0, 1, f, a, l, s, e, F
EnvAlphabet == {48, 49, 102, 97, 108, 115, 101, 70}

\* values of VCC_DRY_RUN that are not ASCII: U+00C9, the lone byte 0xC9, U+0130,
\* "FALSE" U+212A, "fal" U+017F "e", "FAL" U+017F "E", "0" U+00C9, U+0130 alone
\* after "F", "false" followed by the lone byte 0xFF, U+0181, "FALSE" U+0181,
\* U+01C4 U+01C5, and U+10400
EnvNonASCII ==
    { <<195, 137>>,
      <<201>>,
      <<196, 176>>,
      <<70, 65, 76, 83, 69, 226, 132, 170>>,
      <<102, 97, 108, 197, 191, 101>>,
      <<70, 65, 76, 197, 191, 69>>,
      <<48, 195, 137>>,
      <<70, 196, 176>>,
      <<102, 97, 108, 115, 101, 255>>,
      <<198, 129>>,
      <<70, 65, 76, 83, 69, 198, 129>>,
      <<199, 132, 199, 133>>,
      <<240, 144, 144, 128>> }

\* JSON values inside cmake.configureSettings and cmake.configureArgs
ElemValues == {JString(<<97>>), JNull, JNumber, JBool, JArray(<<>>), JObject(<<>>)}
FieldValues ==
    {JNull, JBool, JNumber, JString(<<97>>)}
    \cup {JArray(a) : a \in StringsOver(ElemValues, 0, MaxElems)}
    \cup {JObject(o) : o \in StringsOver({<<65>>, <<66>>} \X ElemValues, 0, MaxElems)}

\* "CMAKE.CONFIGUREARGS", "editor.formatOnSave"
TagConfigureArgsUpper == <<67,77,65,75,69,46,67,79,78,70,73,71,85,82,69,65,82,71,83>>
OtherKey == <<101,100,105,116,111,114,46,102,111,114,109,97,116,79,110,83,97,118,101>>

\* "cmake.configureArg" U+017F, "cma" U+212A "e.configureSettings", and
\* "cmake.configureArg" U+00DF (a key no field takes)
TagConfigureArgsLongS ==
    <<99,109,97,107,101,46,99,111,110,102,105,103,117,114,101,65,114,103,197,191>>
TagConfigureSettingsKelvin ==
    <<99,109,97,226,132,170,101,46,99,111,110,102,105,103,117,114,101,83,101,116,116,105,110,103,115>>
TagConfigureArgsSharpS ==
    <<99,109,97,107,101,46,99,111,110,102,105,103,117,114,101,65,114,103,195,159>>

\* an optional member: no member, or one member with a key from K and a value from V
OptMember(K, V) == {<<>>} \cup {<< <<k, v>> >> : k \in K, v \in V}

\* documents with at most one member for each field, the field values from V
SingleDocs(V) ==
    {ValidDoc(JObject(u \o a \o m)) :
        u \in OptMember({OtherKey}, {JBool}),
        a \in OptMember({TagConfigureArgs, TagConfigureArgsUpper}, V),
        m \in OptMember({TagConfigureSettings}, V)}

\* documents whose keys are not ASCII, the values of the arguments field from V
NonASCIIKeyDocs(V) ==
    {ValidDoc(JObject(a \o m)) :
        a \in OptMember({TagConfigureArgsLongS, TagConfigureArgsSharpS}, V),
        m \in OptMember({TagConfigureSettingsKelvin}, {JNull, JNumber, JObject(<< <<<<65>>, JString(<<97>>)>> >>)})}

\* the values of a repeated cmake.configureArgs member: ["a"], ["a","b"], [null],
\* [null,null], [7], [], null, 17, ["b"]
RepeatedArgs ==
    { JArray(<<JString(<<97>>)>>),
      JArray(<<JString(<<97>>), JString(<<98>>)>>),
      JArray(<<JNull>>),
      JArray(<<JNull, JNull>>),
      JArray(<<JNumber>>),
      JArray(<<>>),
      JNull,
      JNumber,
      JArray(<<JString(<<98>>)>>) }

\* the values of a repeated cmake.configureSettings member: {"A":"a"}, {"B":null},
\* {"A":"b"}, null, 17
RepeatedSettings ==
    { JObject(<< <<<<65>>, JString(<<97>>)>> >>),
      JObject(<< <<<<66>>, JNull>> >>),
      JObject(<< <<<<65>>, JString(<<98>>)>> >>),
      JNull,
      JNumber }

\* documents with two or three members for one field
RepeatedDocs ==
    {ValidDoc(JObject(<< <<k, v1>>, <<TagConfigureArgs, v2>> >> \o t)) :
        k \in {TagConfigureArgs, TagConfigureArgsUpper},
        v1 \in RepeatedArgs,
        v2 \in RepeatedArgs,
        t \in OptMember({TagConfigureArgs}, {JArray(<<JNull, JNull>>)})}
    \cup {ValidDoc(JObject(<< <<TagConfigureSettings, v1>>, <<TagConfigureSettings, v2>> >>)) :
        v1 \in RepeatedSettings,
        v2 \in RepeatedSettings}

\* invalid bytes and the documents that are no object
PlainDocs ==
    {InvalidDoc}
    \cup {ValidDoc(v) : v \in {JNull, JBool, JNumber, JString(<<97>>), JArray(<<>>)}}

MainDocs ==
    { InvalidDoc,
      ValidDoc(JObject(<<>>)),
      ValidDoc(JObject(<< <<TagConfigureArgs, JNumber>> >>)),
      DocOf([CMakeConfigureSettings |-> [k \in {<<65>>, <<65, 49>>} |-> <<97, 32>>],
             CMakeConfigureArguments |-> << <<45, 71>> >>]) }

ToolOutcomes ==
    {[kind |-> "notstarted"], [kind |-> "signaled"], [kind |-> "exited", code |-> 255]}
    \cup {[kind |-> "exited", code |-> c] : c \in 0..MaxExitCode}

---------------------------------------------------------------------------
(* Specifications *)

\* the locals of main before they are assigned
Locals ==
    /\ inFile = <<>>
    /\ dryRun = FALSE
    /\ contents = InvalidDoc
    /\ settings = EmptySettings
    /\ err = ""
    /\ iterOrder = <<>>
    /\ formatted = <<>>
    /\ allArgs = <<>>
    /\ stdout = <<>>
    /\ reads = 0
    /\ spawned = 0
    /\ retcode = 0
    /\ exitCode = -1

\* a whole run of the program
Init ==
    /\ pc = "start"
    /\ env \in {EnvOf(d, p) : d \in {<<>>, << <<>> >>, << <<48>> >>, << <<49>> >>},
                              p \in {<<>>, << <<>> >>, <<AltSettingsPath>>}}
    /\ osArgs \in ArgvLists \cup {<< <<45, 66>>, <<45, 104>> >>, << <<45,45,104,101,108,112>>, <<45, 66>> >>}
    /\ fsys \in UNION {[D -> MainDocs] : D \in SUBSET {DefaultSettingsPath, AltSettingsPath}}
    /\ tool \in ToolOutcomes
    /\ Locals

Next ==
    \/ GetEnv
    \/ ShowHelp
    \/ ReadFile
    \/ Parse
    \/ CheckErr
    \/ Format
    \/ Collect
    \/ PrintCommand
    \/ DryRunReturn
    \/ RunTool
    \/ Exit

Spec == Init /\ [][Next]_vars

\* GetEnvAsBool and GetEnvOrDefault over all values of VCC_DRY_RUN
InitEnv ==
    /\ pc = "start"
    /\ env \in {EnvOf(d, p) :
                  d \in {<<>>} \cup {<<v>> : v \in StringsOver(EnvAlphabet, 0, MaxEnvLen) \cup EnvNonASCII},
                  p \in {<<>>, <<AltSettingsPath>>}}
    /\ osArgs = <<>>
    /\ fsys = <<>>
    /\ tool = [kind |-> "notstarted"]
    /\ Locals

NextEnv == GetEnv

SpecEnv == InitEnv /\ [][NextEnv]_vars

\* ParseVSCodeSettings over all documents, entered as ReadVSCodeSettings enters it
InitParse ==
    /\ pc = "parse"
    /\ \/ contents \in PlainDocs
       \/ contents \in SingleDocs(FieldValues)
       \/ contents \in NonASCIIKeyDocs(FieldValues)
       \/ contents \in RepeatedDocs
    /\ env = <<>>
    /\ osArgs = <<>>
    /\ fsys = [f \in {DefaultSettingsPath} |-> contents]
    /\ tool = [kind |-> "notstarted"]
    /\ inFile = DefaultSettingsPath
    /\ dryRun = FALSE
    /\ settings = EmptySettings
    /\ err = ""
    /\ iterOrder = <<>>
    /\ formatted = <<>>
    /\ allArgs = <<>>
    /\ stdout = <<>>
    /\ reads = 1
    /\ spawned = 0
    /\ retcode = 0
    /\ exitCode = -1

NextParse == Parse \/ CheckErr

SpecParse == InitParse /\ [][NextParse]_vars

\* RunCMakeConfigure entered with the given settings already read and parsed
InitSettings(S) ==
    /\ pc = "format"
    /\ settings \in S
    /\ contents = DocOf(settings)
    /\ osArgs \in ArgvLists
    /\ env = <<>>
    /\ fsys = [f \in {DefaultSettingsPath} |-> contents]
    /\ tool = [kind |-> "notstarted"]
    /\ inFile = DefaultSettingsPath
    /\ dryRun = FALSE
    /\ err = ""
    /\ iterOrder = <<>>
    /\ formatted = <<>>
    /\ allArgs = <<>>
    /\ stdout = <<>>
    /\ reads = 1
    /\ spawned = 0
    /\ retcode = 0
    /\ exitCode = -1

NextFormat == Format \/ Collect

\* FormatCMakeConfigureSettings and CollectCLIArgs over mappings of several entries
InitFormat == InitSettings(FormatSettings(MaxKeys))
SpecFormat == InitFormat /\ [][NextFormat]_vars

\* FormatCMakeConfigureSettings over one entry with all values
InitQuote == InitSettings(QuoteSettings(MaxQuoteLen))
SpecQuote == InitQuote /\ [][NextFormat]_vars

\* the parsed settings of the starting state are what the document on disk parses to
SettingsFromContents ==
    pc = "format" => ParseVSCodeSettings(contents) = [settings |-> settings, err |-> ""]

---------------------------------------------------------------------------
(* Yardsticks of the properties *)

\* characters a POSIX shell gives a meaning to when they stand unquoted:
\* | & ; < > ( ) $ ` * ? [ # ~ ! { }
ShellMeta == {124, 38, 59, 60, 62, 40, 41, 36, 96, 42, 63, 91, 35, 126, 33, 123, 125}

\* How a POSIX shell reads text as words (token recognition and quote removal):
\* blanks split words, '...' is literal, "..." is literal except \ $ `, \c is c.
\* ok is FALSE when a quote is left open or an unquoted character is interpreted.
RECURSIVE ShellScan(_, _, _, _, _, _)
ShellScan(t, i, mode, cur, inw, ws) ==
    IF i > Len(t)
    THEN IF mode = "plain"
         THEN [ok |-> TRUE, words |-> IF inw THEN Append(ws, cur) ELSE ws]
         ELSE [ok |-> FALSE, words |-> ws]
    ELSE LET c == t[i] IN
      IF mode = "sq"
      THEN IF c = 39 THEN ShellScan(t, i+1, "plain", cur, TRUE, ws)
           ELSE ShellScan(t, i+1, "sq", Append(cur, c), TRUE, ws)
      ELSE IF mode = "dq"
      THEN IF c = 34 THEN ShellScan(t, i+1, "plain", cur, TRUE, ws)
           ELSE IF c = 92
           THEN IF i < Len(t) /\ t[i+1] \in {36, 96, 34, 92}
                THEN ShellScan(t, i+2, "dq", Append(cur, t[i+1]), TRUE, ws)
                ELSE IF i < Len(t) /\ t[i+1] = 10
                THEN ShellScan(t, i+2, "dq", cur, TRUE, ws)
                ELSE ShellScan(t, i+1, "dq", Append(cur, c), TRUE, ws)
           ELSE IF c \in {36, 96} THEN [ok |-> FALSE, words |-> ws]
           ELSE ShellScan(t, i+1, "dq", Append(cur, c), TRUE, ws)
      ELSE IF c \in {32, 9, 10}
           THEN ShellScan(t, i+1, "plain", <<>>, FALSE, IF inw THEN Append(ws, cur) ELSE ws)
           ELSE IF c = 39 THEN ShellScan(t, i+1, "sq", cur, TRUE, ws)
           ELSE IF c = 34 THEN ShellScan(t, i+1, "dq", cur, TRUE, ws)
           ELSE IF c = 92
           THEN IF i = Len(t) THEN [ok |-> FALSE, words |-> ws]
                ELSE IF t[i+1] = 10 THEN ShellScan(t, i+2, "plain", cur, inw, ws)
                ELSE ShellScan(t, i+2, "plain", Append(cur, t[i+1]), TRUE, ws)
           ELSE IF c \in ShellMeta THEN [ok |-> FALSE, words |-> ws]
           ELSE ShellScan(t, i+1, "plain", Append(cur, c), TRUE, ws)

ShellSplit(t) == ShellScan(t, 1, "plain", <<>>, FALSE, <<>>)

\* whitespace and the characters a POSIX shell requires to be quoted, or may (* ? [ # ~)
IsShellSpecial(c) ==
    c \in {32, 9, 10, 124, 38, 59, 60, 62, 40, 41, 36, 96, 92, 34, 39, 42, 63, 91, 35, 126}

\* a is a proper prefix of b
IsProperPrefix(a, b) == Len(a) < Len(b) /\ SubSeq(b, 1, Len(a)) = a

\* some occurrence of t1 in s stands before some occurrence of t2
Precedes(s, t1, t2) == \E i, j \in 1..Len(s) : i < j /\ s[i] = t1 /\ s[j] = t2

Sorted(s) == \A i \in 1..(Len(s)-1) : ~StrLess(s[i+1], s[i])

Occurrences(s, t) == Cardinality({i \in 1..Len(s) : s[i] = t})

---------------------------------------------------------------------------
(* Properties *)

Mapping == settings.CMakeConfigureSettings
Formatted == pc \in {"collect", "print"}

\* C1: CollectCLIArgs returns exactly the formatted -D tokens, then
\* cmake.configureArgs in source order, then the process arguments in the order
\* received: nothing dropped, duplicated, reordered or inserted.
C1_CollectConcatenation ==
    pc = "print" =>
        LET f == formatted
            a == settings.CMakeConfigureArguments
        IN  /\ f = FormatCMakeConfigureSettings(settings, iterOrder)
            /\ Len(allArgs) = Len(f) + Len(a) + Len(osArgs)
            /\ \A i \in 1..Len(f) : allArgs[i] = f[i]
            /\ \A i \in 1..Len(a) : allArgs[Len(f) + i] = a[i]
            /\ \A i \in 1..Len(osArgs) : allArgs[Len(f) + Len(a) + i] = osArgs[i]

C1_Witness ==
    /\ pc = "print"
    /\ Len(formatted) = 2
    /\ settings.CMakeConfigureArguments = << <<45, 87>>, <<45, 71>> >>
    /\ osArgs = << <<45, 66>>, <<45, 65>> >>

\* C2: the formatted sequence is sorted byte-wise, and it is the same sequence
\* for every order in which the map's entries may be visited.
C2_SortedAndDeterministic ==
    Formatted =>
        /\ Sorted(formatted)
        /\ \A o \in Orders(DOMAIN Mapping) : FormatCMakeConfigureSettings(settings, o) = formatted

\* the map was visited in an order that is not the sorted one
C2_Witness ==
    /\ pc = "collect"
    /\ Len(iterOrder) = 2
    /\ StrLess(FormatToken(iterOrder[2], Mapping[iterOrder[2]]),
               FormatToken(iterOrder[1], Mapping[iterOrder[1]]))

\* C3 as stated: the token of name k1 stands before the token of name k2 whenever
\* k1 < k2 byte-wise.
C3_NameOrder_AsStated ==
    Formatted =>
        \A k1, k2 \in DOMAIN Mapping :
            StrLess(k1, k2) =>
                Precedes(formatted, FormatToken(k1, Mapping[k1]), FormatToken(k2, Mapping[k2]))

\* C3 amended: the tokens stand in the byte-wise order of the tokens. The token of
\* k1 stands before the token of k2 whenever k1 < k2 and k1 is not a proper prefix
\* of k2, or it is one and the byte that follows it in k2 is greater than "=";
\* when that byte is smaller than "=", the token of k2 stands first.
C3_TokenOrder ==
    Formatted =>
        /\ Sorted(formatted)
        /\ \A k1, k2 \in DOMAIN Mapping :
            LET t1 == <<45, 68>> \o k1 \o <<61>> \o Quote(Mapping[k1])
                t2 == <<45, 68>> \o k2 \o <<61>> \o Quote(Mapping[k2])
            IN  /\ (StrLess(k1, k2) /\ ~IsProperPrefix(k1, k2)) => Precedes(formatted, t1, t2)
                /\ (IsProperPrefix(k1, k2) /\ k2[Len(k1) + 1] > 61) => Precedes(formatted, t1, t2)
                /\ (IsProperPrefix(k1, k2) /\ k2[Len(k1) + 1] < 61) => Precedes(formatted, t2, t1)

\* names "A" and "A1": the token of "A1" stands first
C3_Witness ==
    /\ pc = "collect"
    /\ DOMAIN Mapping = {<<65>>, <<65, 49>>}
    /\ formatted[1] = FormatToken(<<65, 49>>, Mapping[<<65, 49>>])
    /\ iterOrder[1] = <<65>>

\* C4: one token per entry and no other token, and the token of (name, value) is
\* "-D" + name + "=" + escape(value).
C4_OneTokenPerEntry ==
    Formatted =>
        /\ Len(formatted) = Cardinality(DOMAIN Mapping)
        /\ \A k \in DOMAIN Mapping :
            LET t == <<45, 68>> \o k \o <<61>> \o Quote(Mapping[k])
            IN  Occurrences(formatted, t) =
                    Cardinality({k2 \in DOMAIN Mapping :
                        <<45, 68>> \o k2 \o <<61>> \o Quote(Mapping[k2]) = t})

C4_Witness ==
    /\ pc = "collect"
    /\ Cardinality(DOMAIN Mapping) = 2
    /\ \E k \in DOMAIN Mapping : Mapping[k] = <<32>>
    /\ \E k \in DOMAIN Mapping : Mapping[k] = <<97>>

\* the text after "-D" + name + "=" in the token of name k
EscapedPart(k) ==
    LET t == CHOOSE t \in {formatted[i] : i \in 1..Len(formatted)} :
                 Len(t) >= Len(k) + 3 /\ SubSeq(t, 1, Len(k) + 3) = <<45, 68>> \o k \o <<61>>
    IN  SubSeq(t, Len(k) + 4, Len(t))

\* C5: the escaped value, read the way a POSIX shell reads a word, is exactly one
\* word and that word is the original value, for every value.
C5_QuoteRoundTrip ==
    Formatted =>
        \A k \in DOMAIN Mapping :
            ShellSplit(EscapedPart(k)) = [ok |-> TRUE, words |-> <<Mapping[k]>>]

\* a value with a single quote, a space and a double quote
C5_Witness ==
    /\ pc = "collect"
    /\ DOMAIN Mapping = {<<65>>}
    /\ Mapping[<<65>>] = <<39, 32, 34>>

\* C6 as stated: a value without whitespace and shell metacharacters, the empty
\* value included, is emitted as it is, and quoting is added only to values that
\* hold such a character.
C6_NoQuoting_AsStated ==
    Formatted =>
        \A k \in DOMAIN Mapping :
            (\A i \in 1..Len(Mapping[k]) : ~IsShellSpecial(Mapping[k][i]))
                <=> (EscapedPart(k) = Mapping[k])

\* C6 amended: a non-empty value made only of the bytes A-Z a-z 0-9 _ @ % + = : , . / -
\* is emitted as it is; every other value, the empty one included (emitted as ''),
\* is emitted inside single quotes.
C6_NoQuotingUnlessEmpty ==
    Formatted =>
        \A k \in DOMAIN Mapping :
            LET v == Mapping[k]
                e == EscapedPart(k)
                plain == v # <<>> /\ \A i \in 1..Len(v) :
                            \/ v[i] \in 48..57 \/ v[i] \in 65..90 \/ v[i] \in 97..122
                            \/ v[i] \in {95, 64, 37, 43, 61, 58, 44, 46, 47, 45}
            IN  /\ plain => e = v
                /\ ~plain => (Len(e) >= 2 /\ e[1] = 39 /\ e[Len(e)] = 39)
                /\ v = <<>> => e = <<39, 39>>

\* the value "a=" is emitted as it is
C6_Witness ==
    /\ pc = "collect"
    /\ DOMAIN Mapping = {<<65>>}
    /\ Mapping[<<65>>] = <<97, 61>>
    /\ formatted = << <<45, 68, 65, 61, 97, 61>> >>

---------------------------------------------------------------------------
(* Properties of ParseVSCodeSettings *)

\* the spellings of one character of a field name: either case of a letter, and
\* also U+017F (long s) for s and U+212A (Kelvin sign) for k
Spellings(c) ==
    LET lower == IF c >= 65 /\ c <= 90 THEN c + 32 ELSE c
        upper == IF c >= 97 /\ c <= 122 THEN c - 32 ELSE c
    IN  {<<lower>>, <<upper>>}
        \cup (IF lower = 115 THEN {<<197, 191>>} ELSE {})
        \cup (IF lower = 107 THEN {<<226, 132, 170>>} ELSE {})

\* key from position i on spells tag from position j on, character by character
RECURSIVE SpellsFrom(_, _, _, _)
SpellsFrom(key, i, tag, j) ==
    IF j > Len(tag) THEN i > Len(key)
    ELSE \E p \in Spellings(tag[j]) :
            /\ i + Len(p) - 1 <= Len(key)
            /\ \A n \in 1..Len(p) : key[i + n - 1] = p[n]
            /\ SpellsFrom(key, i + Len(p), tag, j + 1)

\* key spells tag: of the same length, each byte is the character in either case;
\* longer, some s or k is written with its non-ASCII spelling
Spells(key, tag) ==
    IF Len(key) = Len(tag)
    THEN \A i \in 1..Len(tag) : <<key[i]>> \in Spellings(tag[i])
    ELSE Len(key) > Len(tag) /\ SpellsFrom(key, 1, tag, 1)

\* the top-level members of the document that the parser takes for the field with
\* the given tag: the key spells the tag
MembersFor(tag) ==
    IF contents.valid /\ contents.value.t = "object"
    THEN {i \in 1..Len(contents.value.o) : Spells(contents.value.o[i][1], tag)}
    ELSE {}

MemberValue(i) == contents.value.o[i][2]

\* an array whose elements are all strings / an object whose values are all strings
IsStringArray(v) == v.t = "array" /\ \A i \in 1..Len(v.a) : v.a[i].t = "string"
IsStringObject(v) == v.t = "object" /\ \A i \in 1..Len(v.o) : v.o[i][2].t = "string"

\* the mapping an object of strings stands for (a later duplicate key wins)
EntriesOf(v) ==
    [k \in {v.o[i][1] : i \in 1..Len(v.o)} |->
        LET last == CHOOSE i \in 1..Len(v.o) :
                        v.o[i][1] = k /\ \A j \in (i+1)..Len(v.o) : v.o[j][1] # k
        IN  v.o[last][2].s]

Parsed == pc = "check"
IsDocument == contents.valid /\ contents.value.t \in {"object", "null"}

\* the top-level members whose key is exactly the tag
MembersNamed(tag) ==
    IF contents.valid /\ contents.value.t = "object"
    THEN {i \in 1..Len(contents.value.o) : contents.value.o[i][1] = tag}
    ELSE {}

C8_WrongShapeIsError ==
    ( /\ Parsed
      /\ IsDocument
      /\ \/ \E i \in MembersNamed(TagConfigureSettings) : ~IsStringObject(MemberValue(i))
         \/ \E i \in MembersNamed(TagConfigureArgs) : ~IsStringArray(MemberValue(i)) )
    => (err # "" /\ settings = EmptySettings)

---------------------------------------------------------------------------
(* Properties of the environment helpers and of main *)

\* "0", or "false" in any capitalization
IsFalseSpelling(v) ==
    \/ v = <<48>>
    \/ /\ Len(v) = 5
       /\ v[1] \in {102, 70} /\ v[2] \in {97, 65} /\ v[3] \in {108, 76}
       /\ v[4] \in {115, 83} /\ v[5] \in {101, 69}

\* C9: GetEnvAsBool is false exactly when the variable is unset or its value is
\* "0" or "false" in any capitalization; every other set value, the empty string
\* included, gives true, so a set but empty VCC_DRY_RUN selects dry-run mode.
C9_GetEnvAsBool ==
    pc # "start" =>
        (dryRun = FALSE) <=>
            ("VCC_DRY_RUN" \notin DOMAIN env \/ IsFalseSpelling(env["VCC_DRY_RUN"]))

\* VCC_DRY_RUN is set to the empty string and dry-run mode is on
C9_Witness ==
    /\ pc = "help"
    /\ "VCC_DRY_RUN" \in DOMAIN env
    /\ env["VCC_DRY_RUN"] = <<>>
    /\ dryRun = TRUE

\* the settings file the run reads: VCC_VSCODE_SETTINGS when set and not empty
SettingsPath ==
    IF "VCC_VSCODE_SETTINGS" \in DOMAIN env /\ env["VCC_VSCODE_SETTINGS"] # <<>>
    THEN env["VCC_VSCODE_SETTINGS"] ELSE DefaultSettingsPath

InputFails ==
    \/ SettingsPath \notin DOMAIN fsys
    \/ ParseVSCodeSettings(fsys[SettingsPath]).err # ""

DryRunOn ==
    "VCC_DRY_RUN" \in DOMAIN env /\ ~IsFalseSpelling(env["VCC_DRY_RUN"])

\* C10: the exit code is 1 when the input file cannot be read or parsed; else 0
\* in dry-run mode; else the tool's exit code c when it starts and exits with c;
\* and when the tool cannot be started the error is printed and the exit code is
\* not 0.
C10_ExitCodes ==
    pc = "done" =>
        /\ InputFails => exitCode = 1
        /\ (~InputFails /\ DryRunOn) => exitCode = 0
        /\ (~InputFails /\ ~DryRunOn /\ tool.kind = "exited") => exitCode = tool.code
        /\ (~InputFails /\ ~DryRunOn /\ tool.kind = "notstarted") =>
              /\ exitCode \in 1..255
              /\ stdout[Len(stdout)] = [kind |-> "error", err |-> "notstarted"]

\* the tool could not be started: the run ends with exit status 255
C10_Witness ==
    /\ pc = "done"
    /\ tool.kind = "notstarted"
    /\ spawned = 1
    /\ exitCode = 255

---------------------------------------------------------------------------
(* Properties of RunCMakeConfigure and of the order of the steps of main *)

\* the first process argument is "-h" or "--help"
LeadingHelp == Len(osArgs) >= 1 /\ osArgs[1] \in {<<45, 104>>, <<45, 45, 104, 101, 108, 112>>}

\* the positions of standard output that hold a record of the given kind
Printed(kind) == {i \in 1..Len(stdout) : stdout[i].kind = kind}

\* the command line of the run: "cmake", the -D tokens, cmake.configureArgs, the
\* process arguments, joined by spaces
CommandLine ==
    Join(<<CMakeName>> \o formatted \o settings.CMakeConfigureArguments \o osArgs)

\* RunCMakeConfigure has returned, or main has ended after it
DriverReturned == pc = "exit" \/ (pc = "done" /\ err = "")

\* C11: in dry-run mode the external tool is never started, in any state of any
\* run; RunCMakeConfigure displays the whole command line and returns 0, whatever
\* the settings, the process arguments and the tool are.
C11_DryRunNeverSpawns ==
    /\ DryRunOn => spawned = 0
    /\ (DriverReturned /\ DryRunOn) =>
          /\ retcode = 0
          /\ \E i \in Printed("command") : stdout[i].line = CommandLine
          /\ Printed("error") = {}

\* a dry run of settings with entries and arguments, with a tool that would have failed
C11_Witness ==
    /\ pc = "done"
    /\ dryRun
    /\ tool = [kind |-> "exited", code |-> 1]
    /\ Len(formatted) = 2
    /\ osArgs # <<>>
    /\ spawned = 0
    /\ exitCode = 0

\* the invocation driver has been entered and has built its command
DriverReached == pc \in {"run", "exit"} \/ (pc = "done" /\ err = "")

\* C12: in every run that reaches the invocation driver, in dry-run mode or not,
\* the whole command line (the tool name and the argument vector handed to the
\* tool) is written to standard output before the tool is started: it is there
\* in the state from which the tool starts, it stands before anything printed
\* after the tool ran, and the tool is never started without it.
C12_CommandPrintedFirst ==
    /\ DriverReached =>
          /\ Cardinality(Printed("command")) = 1
          /\ \A i \in Printed("command") : stdout[i].line = CommandLine
          /\ allArgs = formatted \o settings.CMakeConfigureArguments \o osArgs
    /\ pc = "run" => spawned = 0
    /\ spawned > 0 =>
          /\ Printed("command") # {}
          /\ \A i \in Printed("command") : \A j \in Printed("error") : i < j

\* the tool was started and failed: the command line stands before the error
C12_Witness ==
    /\ pc = "exit"
    /\ spawned = 1
    /\ ~dryRun
    /\ Len(stdout) = 2
    /\ stdout[1].kind = "command"
    /\ stdout[2].kind = "error"
    /\ Len(allArgs) >= 3

\* the process arguments at the end of the argument vector
ForwardedArgs ==
    SubSeq(allArgs, Len(formatted) + Len(settings.CMakeConfigureArguments) + 1, Len(allArgs))

\* C13 as stated: the arguments are forwarded in order at the end of the argument
\* vector, except a leading -h or --help, which is not forwarded and shows the help.
C13_ForwardExceptHelp_AsStated ==
    DriverReached =>
        /\ ForwardedArgs = (IF LeadingHelp THEN Tail(osArgs) ELSE osArgs)
        /\ LeadingHelp => Printed("help") # {}

\* C13 amended: every argument, a leading -h or --help included, is forwarded
\* unchanged and in order at the end of the argument vector handed to the tool; a
\* leading -h or --help shows the help as well.
C13_ForwardAll ==
    DriverReached =>
        /\ Len(allArgs) = Len(formatted) + Len(settings.CMakeConfigureArguments) + Len(osArgs)
        /\ ForwardedArgs = osArgs
        /\ LeadingHelp => Printed("help") # {}

\* "--help -B": both are handed to the tool, after the tokens of the settings
C13_Witness ==
    /\ pc = "exit"
    /\ spawned = 1
    /\ osArgs = << <<45, 45, 104, 101, 108, 112>>, <<45, 66>> >>
    /\ Len(allArgs) = 5
    /\ allArgs[4] = <<45, 45, 104, 101, 108, 112>>
    /\ allArgs[5] = <<45, 66>>

\* C14: the input file is read at most once and the tool is run at most once; when
\* the read or the parse fails the run ends at once with no second read, no
\* command line printed and the tool never run.
C14_NoRetries ==
    /\ reads <= 1
    /\ spawned <= 1
    /\ err # "" =>
          /\ pc \in {"check", "done"}
          /\ reads = 1
          /\ spawned = 0
          /\ Printed("command") = {}
          /\ pc = "done" => (exitCode = 1 /\ stdout[Len(stdout)] = [kind |-> "error", err |-> err])
    /\ (pc = "done" /\ InputFails) => err # ""

\* the file was read and did not parse: the run has ended with status 1
C14_Witness ==
    /\ pc = "done"
    /\ err = "UnmarshalTypeError"
    /\ reads = 1
    /\ spawned = 0
    /\ exitCode = 1

\* C15: the help text is displayed exactly when the first process argument is -h
\* or --help, before the settings file is read, and then the run goes on as it
\* does without help: the file is read and parsed and, unless that fails or
\* dry-run is on, the tool is run.
C15_HelpDoesNotShortCircuit ==
    /\ pc \notin {"start", "help"} =>
          /\ Cardinality(Printed("help")) = (IF LeadingHelp THEN 1 ELSE 0)
          /\ Printed("help") \subseteq {1}
    /\ pc = "read" => reads = 0
    /\ pc = "done" =>
          /\ reads = 1
          /\ spawned = (IF ~InputFails /\ ~DryRunOn THEN 1 ELSE 0)
          /\ Cardinality(Printed("command")) = (IF InputFails THEN 0 ELSE 1)
          /\ exitCode = (IF InputFails THEN 1
                         ELSE IF DryRunOn THEN 0
                         ELSE IF tool.kind = "exited" THEN tool.code ELSE 255)

\* help was shown first, and the tool was run all the same
C15_Witness ==
    /\ pc = "done"
    /\ Len(osArgs) >= 1
    /\ osArgs[1] = <<45, 104>>
    /\ Len(stdout) >= 2
    /\ stdout[1] = [kind |-> "help"]
    /\ stdout[2].kind = "command"
    /\ spawned = 1
    /\ exitCode = 2

====
